---- MODULE Spec2Model ----
(***************************************************************************)
(* Declarative multi-source-to-target binding engine of the repository:    *)
(* FormBinder (src/lib/form-binder/index.js) and FormTextToggler           *)
(* (src/lib/checkbox-text-toggler/index.js).                               *)
(*                                                                         *)
(* A document holds source controls (checkbox, radio, select, text input,  *)
(* static value element) and output nodes.  Each engine registers the      *)
(* sources it discovers, evaluates a candidate per source, resolves each   *)
(* target group by priority and writes the result to the matching nodes,   *)
(* restoring the snapshot of the group when no candidate is active.        *)
(***************************************************************************)
EXTENDS Integers, Sequences, FiniteSets, TLC

\* ------------------------------------------------------------------ bounds
\* Number of source controls in the document.
MaxSources == 2

\* Number of source controls in the documents on which the host page also
\* calls the engine's programmatic entry points.
MaxApiSources == 1

\* Number of listeners of one kind the engine may have attached to one
\* element: addElement is not called again on an element that carries more.
MaxListeners == 2

\* The value of the maxHistorySize option the store is constructed with.
MaxHistorySize == 2

\* Number of state-changing calls (setState, batchUpdate) whose effect has
\* not been undone.
MaxChanges == 3

\* Number of middlewares the host page adds through use().
MaxUse == 1

\* ------------------------------------------------------------ the document
\* getAttribute() of an absent attribute: null.
NULL == "<null>"

Engines == {"FormBinder", "FormTextToggler"}

\* The source controls a document is assembled from.  `target' is the list
\* of class names the control declares: FormBinder reads it as the selector
\* list of data-fb-target, FormTextToggler as data-target-class(es).
Catalog ==
  << [kind |-> "checkbox", target |-> <<"a">>,      prio |-> "1",  trueValue |-> "A",   falseValue |-> NULL,  valueAttr |-> NULL,   name |-> NULL],
     [kind |-> "checkbox", target |-> <<"a">>,      prio |-> "1",  trueValue |-> NULL,  falseValue |-> "off", valueAttr |-> NULL,   name |-> NULL],
     [kind |-> "checkbox", target |-> <<"a", "b">>, prio |-> "1",  trueValue |-> "R&D", falseValue |-> "",    valueAttr |-> NULL,   name |-> NULL],
     [kind |-> "checkbox", target |-> <<"a">>,      prio |-> NULL, trueValue |-> "N",   falseValue |-> NULL,  valueAttr |-> NULL,   name |-> NULL],
     [kind |-> "select",   target |-> <<"b">>,      prio |-> "",   trueValue |-> NULL,  falseValue |-> NULL,  valueAttr |-> NULL,   name |-> NULL],
     [kind |-> "radio",    target |-> <<"a">>,      prio |-> "2",  trueValue |-> NULL,  falseValue |-> NULL,  valueAttr |-> "paid", name |-> "pay"],
     [kind |-> "radio",    target |-> <<"b">>,      prio |-> NULL, trueValue |-> NULL,  falseValue |-> NULL,  valueAttr |-> "free", name |-> "pay"],
     [kind |-> "text",     target |-> <<"a">>,      prio |-> "2",  trueValue |-> NULL,  falseValue |-> NULL,  valueAttr |-> NULL,   name |-> NULL],
     [kind |-> "static",   target |-> <<"a">>,      prio |-> "2",  trueValue |-> NULL,  falseValue |-> NULL,  valueAttr |-> "btn",  name |-> NULL],
     [kind |-> "checkbox", target |-> <<"[">>,      prio |-> "1",  trueValue |-> "A",   falseValue |-> NULL,  valueAttr |-> NULL,   name |-> NULL] >>

\* The templates whose target is a well-formed identifier; the last template
\* of the catalog declares "[", which no selector grammar accepts.
Templates == { t \in 1..Len(Catalog) : Catalog[t].target # <<"[">> }

\* What the user can put into a select or a text input.
UserValues(kind) ==
  CASE kind = "select" -> {"", "sel"}
    [] kind = "text"   -> {"", "txt"}
    [] OTHER           -> {}

\* The output nodes: the classes of each and its markup before any engine
\* touched it.  In the second layout the middle node carries both classes.
Layouts ==
  { << [classes |-> {"a"}, pristine |-> "o1"],
       [classes |-> {"a"}, pristine |-> "o2"],
       [classes |-> {"b"}, pristine |-> "o3"] >>,
    << [classes |-> {"a"},      pristine |-> ""],
       [classes |-> {"a", "b"}, pristine |-> "o2"],
       [classes |-> {"b"},      pristine |-> "o3"] >> }

\* Every sequence of at most n members of S.
SeqsUpTo(S, n) == UNION { [1..k -> S] : k \in 0..n }

VARIABLES
  engine,            \* which engine class is instantiated
  doc,               \* the source controls, in document order (catalog indexes)
  layout,            \* the output nodes, in document order
  checked,           \* element.checked per source
  value,             \* element.value per source
  content,           \* innerHTML / textContent per output node
  elements,          \* this.elements
  cleanupFns,        \* this.cleanupFns
  listeners,         \* handlers this instance has attached, per source and event
  originalContents,  \* this.originalContents / this.originalTexts
  lastEvent,         \* history: the operation that ran last
  lastWrites,        \* history: the _updateTargets calls of that operation
  thrown,            \* history: that operation ended with an uncaught exception
  detached,          \* history: the number of listeners that operation removed
  other,             \* a second engine instance over the same document
  store,             \* a StateManager instance
  tabs               \* a Tabs instance and the triggers and panels of its page

vars == << engine, doc, layout, checked, value, content, elements, cleanupFns,
           listeners, originalContents, lastEvent, lastWrites, thrown, detached,
           other, store, tabs >>

\* What lies outside the engine instance the actions below operate on.
outside == << other, store, tabs >>

config == << engine, doc, layout >>

Slots == 1..Len(doc)
Nodes == 1..Len(layout)
Tpl(i) == Catalog[doc[i]]

\* The state the engine's code reads and writes while an operation runs: the
\* sources' checked and value properties, the nodes' content, the snapshot
\* map, the _updateTargets calls made so far and whether an exception is
\* propagating.
Running(chk, val, cnt, oc) ==
  [checked |-> chk, value |-> val, content |-> cnt, oc |-> oc,
   writes |-> <<>>, thrown |-> FALSE]

\* ------------------------------------------------- attributes of a source
\* The text of data-fb-target: the declared classes as a selector list.
DataFbTarget(i) ==
  LET t == Tpl(i).target IN
  CASE t = <<"a">>      -> ".a"
    [] t = <<"b">>      -> ".b"
    [] t = <<"a", "b">> -> ".a, .b"
    [] t = <<"[">>      -> ".["

\* The text of data-target-classes (declared when there are several classes).
DataTargetClasses(i) ==
  LET t == Tpl(i).target IN
  CASE t = <<"a", "b">> -> "a b"
    [] OTHER            -> NULL

\* The text of data-target-class (declared when there is one class).
DataTargetClass(i) ==
  LET t == Tpl(i).target IN
  CASE t = <<"a">> -> "a"
    [] t = <<"b">> -> "b"
    [] t = <<"[">> -> "["
    [] OTHER       -> NULL

\* targetClasses.trim().split(/\s+/).filter(cls => cls)
SplitClasses(s) ==
  CASE s = "a b" -> <<"a", "b">>
    [] s = "a"   -> <<"a">>
    [] s = "b"   -> <<"b">>

\* The class names a selector of the model's documents matches.
SelectorClasses(sel) ==
  CASE sel = ".a"     -> {"a"}
    [] sel = ".b"     -> {"b"}
    [] sel = ".a, .b" -> {"a", "b"}
    [] OTHER          -> {}

\* parseInt(s, 10) on the priority texts of the model's documents.
ParseInt(s) ==
  CASE s = "1"   -> 1
    [] s = "2"   -> 2
    [] s = "999" -> 999

\* Reading innerHTML back after assigning v to it: the markup is parsed and
\* serialised again, which escapes a bare ampersand.
SerializeHtml(v) ==
  CASE v = "R&D" -> "R&amp;D"
    [] OTHER     -> v

Range(s) == { s[k] : k \in DOMAIN s }

\* JavaScript truthiness of a string-or-null.
Truthy(s) == s # NULL /\ s # ""

\* options.defaultTrueValue ("済" in FormTextToggler, written "sumi" here).
DefaultTrueValue == IF engine = "FormBinder" THEN "true" ELSE "sumi"

\* ------------------------------------------------------ candidate evaluator
\* _getTargetSelector(element)
TargetSelector(i) == DataFbTarget(i)

\* _getTargetClasses(element)
TargetClasses(i) ==
  IF Truthy(DataTargetClasses(i)) THEN SplitClasses(DataTargetClasses(i))
  ELSE IF Truthy(DataTargetClass(i)) THEN <<DataTargetClass(i)>>
  ELSE <<>>

\* parseInt(element.getAttribute(priorityAttr) || "999", 10)
Priority(i) == ParseInt(IF Truthy(Tpl(i).prio) THEN Tpl(i).prio ELSE "999")

\* The checkbox branch of the candidates map (the same in both engines).
CheckboxCandidate(st, i) ==
  IF st.checked[i]
  THEN [element |-> i, priority |-> Priority(i), isActive |-> TRUE,
        value |-> IF Truthy(Tpl(i).trueValue) THEN Tpl(i).trueValue
                  ELSE DefaultTrueValue]
  ELSE [element |-> i, priority |-> Priority(i), isActive |-> FALSE,
        value |-> IF Tpl(i).falseValue # NULL THEN Tpl(i).falseValue ELSE ""]

\* The radio branch of FormBinder's candidates map.
RadioCandidate(st, i) ==
  [element |-> i, priority |-> Priority(i), isActive |-> st.checked[i],
   value |-> IF st.checked[i] THEN st.value[i] ELSE ""]

\* The branches that read element.value: active when it is not empty.
ValueCandidate(st, i) ==
  [element |-> i, priority |-> Priority(i), isActive |-> st.value[i] # "",
   value |-> st.value[i]]

\* The last branch of FormBinder's candidates map: an element with a value
\* attribute is always active.
StaticCandidate(st, i) ==
  IF Tpl(i).valueAttr # NULL
  THEN [element |-> i, priority |-> Priority(i), isActive |-> TRUE,
        value |-> Tpl(i).valueAttr]
  ELSE [element |-> i, priority |-> Priority(i), isActive |-> FALSE,
        value |-> NULL]

\* FormBinder: the callback of candidates = elementsWithSameTarget.map(...)
CandidateFB(st, i) ==
  CASE Tpl(i).kind = "select"   -> ValueCandidate(st, i)
    [] Tpl(i).kind = "checkbox" -> CheckboxCandidate(st, i)
    [] Tpl(i).kind = "radio"    -> RadioCandidate(st, i)
    [] Tpl(i).kind = "text"     -> ValueCandidate(st, i)
    [] OTHER                    -> StaticCandidate(st, i)

\* FormTextToggler: the callback of candidates = elementsWithSameTarget.map(...)
\* It has a select branch, a checkbox branch and one branch for everything
\* else, which reads element.value.
CandidateTT(st, i) ==
  CASE Tpl(i).kind = "select"   -> ValueCandidate(st, i)
    [] Tpl(i).kind = "checkbox" -> CheckboxCandidate(st, i)
    [] OTHER                    -> ValueCandidate(st, i)

Candidate(st, i) == IF engine = "FormBinder" THEN CandidateFB(st, i) ELSE CandidateTT(st, i)

\* ------------------------------------------------------------------ resolver
\* The filter of elementsWithSameTarget: FormBinder compares the whole
\* attribute text, FormTextToggler looks the class up in the declared list.
SameTarget(i, sel) ==
  IF engine = "FormBinder" THEN TargetSelector(i) = sel
  ELSE sel \in Range(TargetClasses(i))

\* Variant: the filter runs over every source of the document.
ElementsInDocumentWithSameTarget(els, sel) ==
  SelectSeq([i \in Slots |-> i], LAMBDA i : SameTarget(i, sel))

ElementsWithSameTarget(els, sel) == SelectSeq(els, LAMBDA i : SameTarget(i, sel))

\* Array.prototype.sort with (a, b) => a.priority - b.priority: a stable
\* sort, here by insertion from the left.
RECURSIVE InsertByPriority(_, _)
InsertByPriority(sorted, c) ==
  IF sorted = <<>> THEN <<c>>
  ELSE IF c.priority - Head(sorted).priority < 0 THEN <<c>> \o sorted
  ELSE <<Head(sorted)>> \o InsertByPriority(Tail(sorted), c)

RECURSIVE SortByPriority(_)
SortByPriority(cs) ==
  IF cs = <<>> THEN <<>>
  ELSE InsertByPriority(SortByPriority(SubSeq(cs, 1, Len(cs) - 1)), cs[Len(cs)])

\* selectedValue of _updateTargetsWithPriority for the given candidates.
SelectedValue(candidates) ==
  LET activeCandidates == SelectSeq(candidates, LAMBDA c : c.isActive) IN
  IF Len(activeCandidates) > 0
  THEN SortByPriority(activeCandidates)[1].value
  ELSE ""

\* ------------------------------------------------------------- target writer
\* The selector text handed to document.querySelectorAll: the identifier
\* itself in FormBinder, `.${targetClass}` in FormTextToggler.
SelectorText(sel) == IF engine = "FormBinder" THEN sel ELSE "." \o sel

\* querySelectorAll throws a SyntaxError on this text.
Malformed(text) == text = ".["

\* document.querySelectorAll: the matching nodes in document order.
QuerySelectorAll(sel) ==
  LET cls == IF engine = "FormBinder" THEN SelectorClasses(sel) ELSE {sel} IN
  SelectSeq([n \in Nodes |-> n], LAMBDA n : layout[n].classes \cap cls # {})

\* What the content property reads after v was assigned to it: innerHTML in
\* FormBinder, textContent in FormTextToggler.
Assigned(v) == IF engine = "FormBinder" THEN SerializeHtml(v) ELSE v

\* Variant: the value is assigned as it is, the empty string included.
WriteTargetVerbatim(st, sel, v, target) ==
  LET oc1 == IF sel \in DOMAIN st.oc THEN st.oc
             ELSE (sel :> st.content[target]) @@ st.oc
  IN [st EXCEPT !.oc = oc1, !.content[target] = Assigned(v)]

\* Variant: the snapshot is taken anew at every write.
WriteTargetRecapture(st, sel, v, target) ==
  LET oc1 == (sel :> st.content[target]) @@ st.oc
      new == IF v = "" \/ v = NULL THEN Assigned(oc1[sel]) ELSE Assigned(v)
  IN [st EXCEPT !.oc = oc1, !.content[target] = new]

\* Variant: a node is written only while it still shows the snapshot.
WriteTargetIfPristine(st, sel, v, target) ==
  LET oc1 == IF sel \in DOMAIN st.oc THEN st.oc
             ELSE (sel :> st.content[target]) @@ st.oc
      new == IF v = "" \/ v = NULL THEN Assigned(oc1[sel]) ELSE Assigned(v)
  IN [st EXCEPT !.oc = oc1,
                !.content[target] = IF @ = oc1[sel] THEN new ELSE @]

\* The body of targets.forEach in _updateTargets, for one target node.
WriteTarget(st, sel, v, target) ==
  LET oc1 == IF sel \in DOMAIN st.oc THEN st.oc
             ELSE (sel :> st.content[target]) @@ st.oc
      new == IF v = "" \/ v = NULL THEN Assigned(oc1[sel]) ELSE Assigned(v)
  IN [st EXCEPT !.oc = oc1, !.content[target] = new]

\* Variant: only the first matching node is written (querySelector).
WriteFirstTarget(st, sel, v, targets) ==
  IF targets = <<>> THEN st ELSE WriteTarget(st, sel, v, Head(targets))

\* targets.forEach((target) => ...) of _updateTargets.
RECURSIVE WriteTargets(_, _, _, _)
WriteTargets(st, sel, v, targets) ==
  IF targets = <<>> THEN st
  ELSE WriteTargets(WriteTarget(st, sel, v, Head(targets)), sel, v, Tail(targets))

\* Variant: restoring a group also drops its entry of the snapshot map.
UpdateTargetsForget(st, sel, v) ==
  LET targets == QuerySelectorAll(sel)
      st1     == WriteTargets(st, sel, v, targets)
  IN [st1 EXCEPT !.oc = IF v = "" THEN [g \in DOMAIN st1.oc \ {sel} |-> st1.oc[g]]
                        ELSE st1.oc,
                 !.writes = Append(st.writes,
                   [sel |-> sel, value |-> v, targets |-> Range(targets),
                    content |-> [n \in Range(targets) |-> st1.content[n]]])]

\* _updateTargets(targetSelector, value); the call is appended to st.writes.
\* On a malformed selector querySelectorAll throws: FormBinder catches and
\* logs it, FormTextToggler has no try block and lets it propagate.
UpdateTargets(st, sel, v) ==
  LET targets == QuerySelectorAll(sel)
      st1     == WriteTargets(st, sel, v, targets)
  IN IF Malformed(SelectorText(sel))
     THEN IF engine = "FormBinder" THEN st ELSE [st EXCEPT !.thrown = TRUE]
     ELSE [st1 EXCEPT !.writes = Append(st.writes,
             [sel |-> sel, value |-> v, targets |-> Range(targets),
              content |-> [n \in Range(targets) |-> st1.content[n]]])]

\* _updateTargetsWithPriority(targetSelector)
UpdateTargetsWithPriority(st, els, sel) ==
  LET same == ElementsWithSameTarget(els, sel) IN
  IF Len(same) = 0 THEN st
  ELSE UpdateTargets(st, sel, SelectedValue([k \in DOMAIN same |-> Candidate(st, same[k])]))

\* forEach over the groups: an exception ends the loop.
RECURSIVE ResolveEach(_, _, _)
ResolveEach(st, els, sels) ==
  IF sels = <<>> \/ st.thrown THEN st
  ELSE ResolveEach(UpdateTargetsWithPriority(st, els, Head(sels)), els, Tail(sels))

\* The groups _handleChange(element) resolves: FormBinder the element's
\* selector when it has one, FormTextToggler each declared class in turn.
HandledTargets(i) ==
  IF engine = "FormBinder"
  THEN IF Truthy(TargetSelector(i)) THEN <<TargetSelector(i)>> ELSE <<>>
  ELSE TargetClasses(i)

\* Variant: a handler that resolves the first declared group only.
HandleChangeFirstGroup(st, els, i) ==
  IF HandledTargets(i) = <<>> THEN st
  ELSE UpdateTargetsWithPriority(st, els, HandledTargets(i)[1])

\* _handleChange(element)
HandleChange(st, els, i) == ResolveEach(st, els, HandledTargets(i))

\* uniqueTargetSelectors.add(...) for each group of the list, in order.
RECURSIVE AddUnique(_, _)
AddUnique(acc, sels) ==
  IF sels = <<>> THEN acc
  ELSE AddUnique(IF Head(sels) \in Range(acc) THEN acc ELSE Append(acc, Head(sels)),
                 Tail(sels))

\* The insertion-ordered Set _updateAllTargets builds from this.elements.
RECURSIVE UniqueTargets(_, _)
UniqueTargets(els, acc) ==
  IF els = <<>> THEN acc
  ELSE UniqueTargets(Tail(els), AddUnique(acc, HandledTargets(Head(els))))

\* _updateAllTargets()
UpdateAllTargets(st, els) == ResolveEach(st, els, UniqueTargets(els, <<>>))

\* ------------------------------------------------------ lifecycle and wiring
\* element.tagName === "INPUT" && element.type !== "checkbox"
IsNonCheckboxInput(i) == Tpl(i).kind \in {"radio", "text"}

\* The sources of the given kinds, in document order (root.querySelectorAll).
OfKinds(kinds) == SelectSeq([i \in Slots |-> i], LAMBDA i : Tpl(i).kind \in kinds)

\* this.elements as init() assembles it: checkboxes, selects, the other
\* inputs and, in FormBinder only, the elements matching valueSelector.
Discover ==
  IF engine = "FormBinder"
  THEN OfKinds({"checkbox"}) \o OfKinds({"select"}) \o OfKinds({"radio", "text"})
       \o OfKinds({"static"})
  ELSE OfKinds({"checkbox"}) \o OfKinds({"select"}) \o OfKinds({"radio", "text"})

\* _setupElement(element); ls is [listeners, cleanupFns].
SetupElement(ls, i) ==
  IF HandledTargets(i) = <<>> THEN ls
  ELSE LET evs == IF IsNonCheckboxInput(i) THEN <<"input", "change">>
                  ELSE <<"change">>
       IN [listeners  |-> [ls.listeners EXCEPT ![i] =
                             [ev \in {"change", "input"} |->
                                @[ev] + IF ev \in Range(evs) THEN 1 ELSE 0]],
           cleanupFns |-> ls.cleanupFns \o
                            [k \in DOMAIN evs |-> [el |-> i, ev |-> evs[k]]]]

RECURSIVE SetupAll(_, _)
SetupAll(ls, els) ==
  IF els = <<>> THEN ls ELSE SetupAll(SetupElement(ls, Head(els)), Tail(els))

\* Variant: only the functions that remove a change handler are run.
RECURSIVE RunChangeCleanupFns(_, _)
RunChangeCleanupFns(l, fns) ==
  IF fns = <<>> THEN l
  ELSE RunChangeCleanupFns(
         IF Head(fns).ev = "change"
         THEN [l EXCEPT ![Head(fns).el][Head(fns).ev] = @ - 1] ELSE l,
         Tail(fns))

\* this.cleanupFns.forEach((fn) => fn()): each removes the handler it closed over.
RECURSIVE RunCleanupFns(_, _)
RunCleanupFns(l, fns) ==
  IF fns = <<>> THEN l
  ELSE RunCleanupFns([l EXCEPT ![Head(fns).el][Head(fns).ev] = @ - 1], Tail(fns))

\* The handlers attached to the element for the event, run one after another.
RECURSIVE RunHandlers(_, _, _, _)
RunHandlers(st, els, i, n) ==
  IF n = 0 THEN st
  ELSE RunHandlers(HandleChange([st EXCEPT !.thrown = FALSE], els, i), els, i, n - 1)

\* The element.value property of a control as the document is loaded.
InitialValue(t) ==
  CASE t.kind \in {"select", "text"} -> ""
    [] t.valueAttr # NULL            -> t.valueAttr
    [] t.kind \in {"checkbox", "radio"} -> "on"
    [] OTHER                         -> ""

NoListeners == [ev \in {"change", "input"} |-> 0]

\* No second engine instance has been constructed.
NoOther == [constructed |-> FALSE]

\* No StateManager has been constructed.
NoStore == [constructed |-> FALSE]

\* No Tabs instance has been constructed.
NoTabs == [constructed |-> FALSE]

\* ---------------------------------------------------------------- the machine
\* The engine is constructed over a freshly loaded document; its elements,
\* cleanupFns and snapshot map are empty until init() runs.
Loaded(docs) ==
  /\ engine \in Engines
  /\ doc \in docs
  /\ layout \in Layouts
  /\ checked = [i \in DOMAIN doc |-> FALSE]
  /\ value = [i \in DOMAIN doc |-> InitialValue(Catalog[doc[i]])]
  /\ content = [n \in DOMAIN layout |-> layout[n].pristine]
  /\ elements = <<>>
  /\ cleanupFns = <<>>
  /\ listeners = [i \in DOMAIN doc |-> NoListeners]
  /\ originalContents = <<>>
  /\ lastEvent = [op |-> "none", src |-> 0]
  /\ lastWrites = <<>>
  /\ thrown = FALSE
  /\ detached = 0
  /\ other = NoOther
  /\ store = NoStore
  /\ tabs = NoTabs

\* The documents of at most MaxSources well-formed sources.
Init == Loaded(SeqsUpTo(Templates, MaxSources))

\* init(document)
InitEngine ==
  LET cleaned == RunCleanupFns(listeners, cleanupFns)
      els     == Discover
      ls      == SetupAll([listeners |-> cleaned, cleanupFns |-> <<>>], els)
      st      == UpdateAllTargets(Running(checked, value, content, <<>>), els)
  IN /\ elements' = els
     /\ listeners' = ls.listeners
     /\ cleanupFns' = ls.cleanupFns
     /\ content' = st.content
     /\ originalContents' = st.oc
     /\ lastWrites' = st.writes
     /\ lastEvent' = [op |-> "init", src |-> 0]
     /\ thrown' = st.thrown
     /\ detached' = Len(cleanupFns)
     /\ UNCHANGED <<config, checked, value, outside>>

\* The automatic initialisation when the page has loaded: it runs once.
AutoInit == lastEvent.op = "none" /\ InitEngine

\* The browser dispatches event ev on source i after the user's action left
\* the sources with the properties chk and val.
Dispatch(i, ev, chk, val) ==
  LET n  == listeners[i][ev]
      st == RunHandlers(Running(chk, val, content, originalContents),
                        elements, i, n)
  IN /\ checked' = chk
     /\ value' = val
     /\ content' = st.content
     /\ originalContents' = st.oc
     /\ IF n > 0
        THEN /\ lastWrites' = st.writes /\ lastEvent' = [op |-> ev, src |-> i]
             /\ thrown' = st.thrown /\ detached' = 0
        ELSE UNCHANGED <<lastWrites, lastEvent, thrown, detached>>
     /\ UNCHANGED <<config, elements, cleanupFns, listeners, outside>>

\* The user clicks a checkbox.
UserToggle ==
  \E i \in Slots :
    /\ Tpl(i).kind = "checkbox"
    /\ Dispatch(i, "change", [checked EXCEPT ![i] = ~@], value)

\* The user clicks an unchecked radio button: the browser unchecks the other
\* radios of its name and dispatches change on the clicked one only.
UserPick ==
  \E i \in Slots :
    /\ Tpl(i).kind = "radio"
    /\ ~checked[i]
    /\ Dispatch(i, "change",
                [j \in Slots |->
                   IF j = i THEN TRUE
                   ELSE IF Tpl(j).kind = "radio" /\ Tpl(j).name = Tpl(i).name
                        THEN FALSE ELSE checked[j]],
                value)

\* The user chooses another option of a select.
UserSelect ==
  \E i \in Slots :
    /\ Tpl(i).kind = "select"
    /\ \E v \in UserValues("select") \ {value[i]} :
         Dispatch(i, "change", checked, [value EXCEPT ![i] = v])

\* The user edits a text input: the input event.
UserInput ==
  \E i \in Slots :
    /\ Tpl(i).kind = "text"
    /\ \E v \in UserValues("text") \ {value[i]} :
         Dispatch(i, "input", checked, [value EXCEPT ![i] = v])

\* The edited text input loses focus: the change event.
UserCommit ==
  \E i \in Slots :
    /\ Tpl(i).kind = "text"
    /\ lastEvent = [op |-> "input", src |-> i]
    /\ Dispatch(i, "change", checked, value)

\* The engine has been initialised: the page obtains an instance only from
\* a constructor that ran init() or from the auto-initialisation.
Initialized == lastEvent.op # "none"

\* updateTargets(targetSelector, value), called by the host page.
CallUpdateTargets ==
  \E sel \in (IF engine = "FormBinder" THEN {".a", ".b", ".a, .b"} ELSE {"a", "b"}),
     v \in {"", "X"} :
    LET st == UpdateTargets(Running(checked, value, content, originalContents),
                            sel, v)
    IN /\ Initialized
       /\ content' = st.content
       /\ originalContents' = st.oc
       /\ lastWrites' = st.writes
       /\ lastEvent' = [op |-> "updateTargets", src |-> 0]
       /\ thrown' = st.thrown
       /\ detached' = 0
       /\ UNCHANGED <<config, checked, value, elements, cleanupFns, listeners, outside>>

Next ==
  \/ AutoInit
  \/ UserToggle
  \/ UserPick
  \/ UserSelect
  \/ UserInput
  \/ UserCommit

Spec == Init /\ [][Next]_vars

\* The page also drives the engine through its programmatic entry points.
NextApi ==
  \/ Next
  \/ CallUpdateTargets

\* The documents of at most MaxApiSources sources.
InitApi == Init /\ Len(doc) <= MaxApiSources

SpecApi == InitApi /\ [][NextApi]_vars

\* ------------------------------------------------------------ the life cycle
\* The engine instance and the document as one value: this.elements, the
\* attached listeners, this.cleanupFns and the running state.
Machine ==
  [elements |-> elements, listeners |-> listeners, cleanupFns |-> cleanupFns,
   st |-> Running(checked, value, content, originalContents)]

\* cleanup()
Cleanup(m) ==
  [m EXCEPT !.listeners = RunCleanupFns(m.listeners, m.cleanupFns),
            !.cleanupFns = <<>>,
            !.elements = <<>>,
            !.st.oc = <<>>]

\* Variant: addElement without the includes() test.
AddElementAgain(m, i) ==
  LET els == Append(m.elements, i)
      ls  == SetupElement([listeners |-> m.listeners, cleanupFns |-> m.cleanupFns], i)
  IN [elements |-> els, listeners |-> ls.listeners, cleanupFns |-> ls.cleanupFns,
      st |-> HandleChange(m.st, els, i)]

\* addElement(element)
AddElement(m, i) ==
  IF i \in Range(m.elements) THEN m
  ELSE LET els == Append(m.elements, i)
           ls  == SetupElement([listeners |-> m.listeners,
                                cleanupFns |-> m.cleanupFns], i)
       IN [elements |-> els, listeners |-> ls.listeners,
           cleanupFns |-> ls.cleanupFns, st |-> HandleChange(m.st, els, i)]

\* removeElement(element): indexOf and splice.
RemoveElement(m, i) ==
  [m EXCEPT !.elements = SelectSeq(@, LAMBDA j : j # i)]

\* setElementValue(id, value) for the element with that id.
SetElementValue(m, i, v) ==
  LET st1 == IF Tpl(i).kind = "checkbox"
             THEN [m.st EXCEPT !.checked[i] = v]
             ELSE [m.st EXCEPT !.value[i] = v]
  IN [m EXCEPT !.st = HandleChange(st1, m.elements, i)]

\* The operation op leaves the instance and the document as m says.
Commit(m, op, src) ==
  /\ elements' = m.elements
  /\ listeners' = m.listeners
  /\ cleanupFns' = m.cleanupFns
  /\ checked' = m.st.checked
  /\ value' = m.st.value
  /\ content' = m.st.content
  /\ originalContents' = m.st.oc
  /\ lastWrites' = m.st.writes
  /\ thrown' = m.st.thrown
  /\ detached' = Len(cleanupFns) - Len(m.cleanupFns)
  /\ lastEvent' = [op |-> op, src |-> src]
  /\ UNCHANGED <<config, outside>>

\* init(), called again by the host page.
CallInit == Initialized /\ InitEngine

CallCleanup == Initialized /\ Commit(Cleanup(Machine), "cleanup", 0)

CallAddElement ==
  \E i \in Slots :
    /\ Initialized
    /\ i \in Range(elements) \/ listeners[i]["change"] < MaxListeners
    /\ Commit(AddElement(Machine, i), "addElement", i)

CallRemoveElement ==
  \E i \in Slots :
    /\ Initialized
    /\ Commit(RemoveElement(Machine, i), "removeElement", i)

CallSetElementValue ==
  \E i \in Slots :
    /\ Initialized
    /\ Tpl(i).kind \in {"checkbox", "select", "text"}
    /\ \E v \in (IF Tpl(i).kind = "checkbox" THEN BOOLEAN ELSE UserValues(Tpl(i).kind)) :
         Commit(SetElementValue(Machine, i, v), "setElementValue", i)

\* The documents of LifeDocs hold checkboxes and text inputs, so of the user's
\* actions only theirs appear.
NextLife ==
  \/ AutoInit
  \/ UserToggle
  \/ UserInput
  \/ UserCommit
  \/ CallUpdateTargets
  \/ CallInit
  \/ CallCleanup
  \/ CallAddElement
  \/ CallRemoveElement
  \/ CallSetElementValue

\* The documents on which the host page drives the whole life cycle: one
\* checkbox, one checkbox that declares two groups, one text input (which
\* gets an input and a change listener).
LifeDocs == { <<1>>, <<3>>, <<8>> }

InitLife == Init /\ doc \in LifeDocs

SpecLife == InitLife /\ [][NextLife]_vars

\* ------------------------------------------------ malformed group identifiers
\* updateTargets called with an identifier that is not a selector.
CallUpdateMalformed ==
  \E v \in {"", "X"} :
    /\ Initialized
    /\ Commit([Machine EXCEPT !.st =
                 UpdateTargets(@, IF engine = "FormBinder" THEN ".[" ELSE "[", v)],
              "updateTargets", 0)

\* Documents in which a checkbox declares the identifier "[", alone or next
\* to a checkbox on group a.
BadDocs == { <<10>>, <<10, 1>>, <<1, 10>> }

InitBad == Loaded(BadDocs)

NextBad ==
  \/ AutoInit
  \/ UserToggle
  \/ CallUpdateTargets
  \/ CallUpdateMalformed
  \/ CallSetElementValue

SpecBad == InitBad /\ [][NextBad]_vars

\* ------------------------------------------------------- removal of a source
\* Documents of two checkboxes that feed group a, with different priorities
\* and in both orders, or one of them feeding group b as well.
RemoveDocs == { <<1, 4>>, <<4, 1>>, <<3, 1>> }

InitRemove == Loaded(RemoveDocs)

NextRemove ==
  \/ AutoInit
  \/ UserToggle
  \/ CallRemoveElement
  \/ CallSetElementValue

SpecRemove == InitRemove /\ [][NextRemove]_vars

\* ------------------------------------------------------------- two instances
\* new FormBinder() a second time over the same document: the constructor
\* runs init(), which registers what it discovers, attaches its own handler
\* to each source and resolves every group into its own snapshot map.
ConstructOther ==
  LET st == UpdateAllTargets(Running(checked, value, content, <<>>), Discover)
  IN /\ Initialized
     /\ ~other.constructed
     /\ other' = [constructed |-> TRUE, elements |-> Discover, oc |-> st.oc]
     /\ content' = st.content
     /\ lastWrites' = st.writes
     /\ lastEvent' = [op |-> "construct", src |-> 0]
     /\ thrown' = st.thrown
     /\ detached' = 0
     /\ UNCHANGED <<config, checked, value, elements, cleanupFns, listeners,
                    originalContents, store, tabs>>

\* The user clicks a checkbox: the change event runs the handlers in the
\* order they were attached, the first instance's and then the second's.
ToggleBoth ==
  \E i \in Slots :
    LET chk == [checked EXCEPT ![i] = ~@]
        st1 == RunHandlers(Running(chk, value, content, originalContents),
                           elements, i, listeners[i]["change"])
        st2 == IF other.constructed /\ i \in Range(other.elements)
               THEN HandleChange(Running(chk, value, st1.content, other.oc),
                                 other.elements, i)
               ELSE Running(chk, value, st1.content, <<>>)
    IN /\ Tpl(i).kind = "checkbox"
       /\ checked' = chk
       /\ content' = st2.content
       /\ originalContents' = st1.oc
       /\ other' = IF other.constructed THEN [other EXCEPT !.oc = st2.oc] ELSE other
       /\ lastWrites' = st1.writes \o st2.writes
       /\ lastEvent' = [op |-> "change", src |-> i]
       /\ thrown' = st2.thrown
       /\ detached' = 0
       /\ UNCHANGED <<config, value, elements, cleanupFns, listeners, store, tabs>>

\* Documents of checkboxes: one, one on two groups, two on the same group.
TwoDocs == { <<1>>, <<3>>, <<1, 4>> }

InitTwo == Loaded(TwoDocs)

NextTwo ==
  \/ AutoInit
  \/ ConstructOther
  \/ ToggleBoth

SpecTwo == InitTwo /\ [][NextTwo]_vars

\* ---------------------------------------------------------------- the store
\* StateManager (src/store/StateManager.js).  A state is an object: the
\* application's has the five keys the validation asks for, and the number
\* under ui is what the updaters of the model change.
RequiredKeys == {"texts", "checkboxes", "status", "forms", "ui"}

AppState(v) == [k \in RequiredKeys |-> IF k = "ui" THEN v ELSE 0]

\* The updaters handed to setState and batchUpdate: the partial object
\* { ui: v }, merged into the state, and the function () => ({ ui: v }),
\* whose result has the ui key only.
UiValues == {0, 1}

Updaters == [fn : BOOLEAN, ui : UiValues]

\* typeof updater === 'function' ? updater(state) : { ...state, ...updater }
ApplyUpdater(u, state) ==
  IF u.fn THEN [k \in {"ui"} |-> u.ui]
  ELSE [k \in DOMAIN state \cup {"ui"} |-> IF k = "ui" THEN u.ui ELSE state[k]]

\* What a middleware or a call returns.
False == [kind |-> "false"]
Undefined == [kind |-> "undefined"]
Object(state) == [kind |-> "object", state |-> state]

\* _validationMiddleware(prevState, nextState, action)
ValidationMiddleware(prev, next) ==
  IF \E key \in RequiredKeys : key \notin DOMAIN next THEN False ELSE Object(next)

\* _loggingMiddleware(prevState, nextState, action): no return statement.
LoggingMiddleware(prev, next) == Undefined

\* A middleware of the host page: it cancels an update that lowers ui.
VetoMiddleware(prev, next) ==
  IF next["ui"] < prev["ui"] THEN False ELSE Undefined

Middleware(m, prev, next) ==
  CASE m = "validation" -> ValidationMiddleware(prev, next)
    [] m = "logging"    -> LoggingMiddleware(prev, next)
    [] m = "veto"       -> VetoMiddleware(prev, next)

\* Variant: the pipeline takes no notice of a middleware returning false.
RECURSIVE RunMiddlewaresThrough(_, _, _, _)
RunMiddlewaresThrough(mws, prev, next, results) ==
  IF mws = <<>> THEN [cancelled |-> FALSE, next |-> next, results |-> results]
  ELSE LET result == Middleware(Head(mws), prev, next) IN
       RunMiddlewaresThrough(Tail(mws), prev,
                             IF result.kind = "object" THEN result.state ELSE next,
                             Append(results, result))

\* for (const middleware of this._middlewares) of setState; results are the
\* values the middlewares that ran returned, in order.
RECURSIVE RunMiddlewares(_, _, _, _)
RunMiddlewares(mws, prev, next, results) ==
  IF mws = <<>> THEN [cancelled |-> FALSE, next |-> next, results |-> results]
  ELSE LET result == Middleware(Head(mws), prev, next) IN
       IF result = False
       THEN [cancelled |-> TRUE, next |-> next, results |-> Append(results, result)]
       ELSE RunMiddlewares(Tail(mws), prev,
                           IF result.kind = "object" THEN result.state ELSE next,
                           Append(results, result))

\* The wrapped listener of subscribe: a plain listener is always invoked,
\* one subscribed with the selector s => s.ui when the selected values differ.
Invoked(listener, new, prev) ==
  listener = "plain" \/ new["ui"] # prev["ui"]

\* _notifyListeners(newState, prevState, action): the listeners invoked, in
\* the insertion order of the Set.
Notify(ls, new, prev, type) ==
  LET invoked == SelectSeq(ls, LAMBDA l : Invoked(l, new, prev))
  IN [k \in DOMAIN invoked |-> [listener |-> invoked[k], type |-> type]]

\* The store before any call: what the last call did is empty.
NoCall == [op |-> "none", results |-> <<>>, notified |-> <<>>, returned |-> Undefined]

\* new StateManager(initialState, options)
NewStore(initialState, options) ==
  [constructed |-> TRUE,
   state |-> initialState,
   previousStates |-> <<>>,
   listeners |-> <<>>,
   middlewares |-> (IF options.enableLogging THEN <<"logging">> ELSE <<>>) \o
                   (IF options.enableValidation THEN <<"validation">> ELSE <<>>),
   options |-> options,
   trail |-> <<>>,
   last |-> NoCall]

\* Variant: setState that never drops an entry of the history.
SetStateKeepAll(s, updater, actionType) ==
  LET prevState == s.state
      run       == RunMiddlewares(s.middlewares, prevState,
                                  ApplyUpdater(updater, prevState), <<>>)
      history   == IF ~s.options.enableTimeTravel THEN s.previousStates
                   ELSE Append(s.previousStates,
                               [state |-> prevState,
                                action |-> [type |-> actionType, payload |-> updater]])
  IN IF run.cancelled
     THEN [s EXCEPT !.last = [op |-> "setState", results |-> run.results,
                              notified |-> <<>>, returned |-> Object(prevState)]]
     ELSE [s EXCEPT !.state = run.next,
                    !.previousStates = history,
                    !.last = [op |-> "setState", results |-> run.results,
                              notified |-> Notify(s.listeners, run.next, prevState, actionType),
                              returned |-> Object(run.next)]]

\* setState(updater, actionType)
SetState(s, updater, actionType) ==
  LET prevState == s.state
      run       == RunMiddlewares(s.middlewares, prevState,
                                  ApplyUpdater(updater, prevState), <<>>)
      pushed    == Append(s.previousStates,
                          [state |-> prevState,
                           action |-> [type |-> actionType, payload |-> updater]])
      history   == IF ~s.options.enableTimeTravel THEN s.previousStates
                   ELSE IF Len(pushed) > s.options.maxHistorySize THEN Tail(pushed)
                   ELSE pushed
  IN IF run.cancelled
     THEN [s EXCEPT !.last = [op |-> "setState", results |-> run.results,
                              notified |-> <<>>, returned |-> Object(prevState)]]
     ELSE [s EXCEPT !.state = run.next,
                    !.previousStates = history,
                    !.last = [op |-> "setState", results |-> run.results,
                              notified |-> Notify(s.listeners, run.next, prevState, actionType),
                              returned |-> Object(run.next)]]

\* updates.reduce(...) of batchUpdate
RECURSIVE Reduce(_, _)
Reduce(updates, state) ==
  IF updates = <<>> THEN state
  ELSE Reduce(Tail(updates), ApplyUpdater(Head(updates), state))

\* batchUpdate(updates)
BatchUpdate(s, updates) ==
  LET finalState == Reduce(updates, s.state)
  IN [s EXCEPT !.state = finalState,
               !.last = [op |-> "batchUpdate", results |-> <<>>,
                         notified |-> Notify(s.listeners, finalState, finalState, "BATCH_UPDATE"),
                         returned |-> Undefined]]

\* undo()
Undo(s) ==
  IF ~s.options.enableTimeTravel \/ Len(s.previousStates) = 0
  THEN [s EXCEPT !.last = [op |-> "undo", results |-> <<>>, notified |-> <<>>,
                           returned |-> Undefined]]
  ELSE LET previous == s.previousStates[Len(s.previousStates)]
       IN [s EXCEPT !.state = previous.state,
                    !.previousStates = SubSeq(@, 1, Len(@) - 1),
                    !.last = [op |-> "undo", results |-> <<>>,
                              notified |-> Notify(s.listeners, previous.state, previous.state, "UNDO"),
                              returned |-> Undefined]]

\* The engine instance and its document, which the store does not touch.
inside == << engine, doc, layout, checked, value, content, elements, cleanupFns,
             listeners, originalContents, lastEvent, lastWrites, thrown, detached >>

\* The option objects the store is constructed with: the constructor's
\* defaults, the application's (validation and time travel) and a debugging
\* set-up (logging and time travel, no validation).
StoreOptions ==
  { [enableLogging |-> FALSE, enableValidation |-> TRUE,  enableTimeTravel |-> FALSE, maxHistorySize |-> MaxHistorySize],
    [enableLogging |-> FALSE, enableValidation |-> TRUE,  enableTimeTravel |-> TRUE,  maxHistorySize |-> MaxHistorySize],
    [enableLogging |-> TRUE,  enableValidation |-> FALSE, enableTimeTravel |-> TRUE,  maxHistorySize |-> MaxHistorySize] }

ConstructStore ==
  /\ ~store.constructed
  /\ \E options \in StoreOptions : store' = NewStore(AppState(0), options)
  /\ UNCHANGED << inside, other, tabs >>

\* use(middleware) with the host page's middleware.
StoreUse ==
  /\ store.constructed
  /\ Len(SelectSeq(store.middlewares, LAMBDA m : m = "veto")) < MaxUse
  /\ store' = [store EXCEPT !.middlewares = Append(@, "veto"), !.last = NoCall]
  /\ UNCHANGED << inside, other, tabs >>

\* subscribe(listener) and subscribe(listener, s => s.ui)
StoreSubscribe ==
  /\ store.constructed
  /\ \E l \in {"plain", "selector"} \ Range(store.listeners) :
       store' = [store EXCEPT !.listeners = Append(@, l), !.last = NoCall]
  /\ UNCHANGED << inside, other, tabs >>

\* The last call cancelled: a middleware returned false.
Cancelled(s) == False \in Range(s.last.results)

\* trail remembers the state each state-changing call started from, as long
\* as the call has not been undone.
StoreSetState ==
  /\ store.constructed
  /\ Len(store.trail) < MaxChanges
  /\ \E u \in Updaters :
       LET s == SetState(store, u, "UPDATE")
       IN store' = [s EXCEPT !.trail = IF Cancelled(s) THEN @
                                       ELSE Append(@, store.state)]
  /\ UNCHANGED << inside, other, tabs >>

StoreBatchUpdate ==
  /\ store.constructed
  /\ Len(store.trail) < MaxChanges
  /\ \E u1 \in Updaters, rest \in {<<>>} \cup { <<u2>> : u2 \in Updaters } :
       store' = [BatchUpdate(store, <<u1>> \o rest) EXCEPT
                   !.trail = Append(@, store.state)]
  /\ UNCHANGED << inside, other, tabs >>

StoreUndo ==
  /\ store.constructed
  /\ store' = [Undo(store) EXCEPT !.trail = SubSeq(@, 1, Len(@) - 1)]
  /\ UNCHANGED << inside, other, tabs >>

\* The page of the store: no binding engine is instantiated over it.
InitStore == Loaded({<<>>}) /\ engine = "FormBinder" /\ layout[1].pristine = "o1"

NextStore ==
  \/ ConstructStore
  \/ StoreUse
  \/ StoreSubscribe
  \/ StoreSetState
  \/ StoreBatchUpdate
  \/ StoreUndo

SpecStore == InitStore /\ [][NextStore]_vars

\* ----------------------------------------------------------------------- tabs
\* The pages the Tabs component is constructed over: the data-tabs-value of
\* the .tabs-trigger buttons of the tabs list and of the .tabs-content
\* panels of its group, both in document order.  Every trigger carries the
\* required data-tabs-value; a panel may be missing or out of order.
TabsPages ==
  { [triggers |-> <<"tab1", "tab2", "tab3">>, contents |-> <<"tab1", "tab2", "tab3">>],
    [triggers |-> <<"tab1", "tab2", "tab3">>, contents |-> <<"tab2", "tab1">>],
    [triggers |-> <<"tab1", "tab2">>,         contents |-> <<"tab1", "tab2">>] }

\* The values the host page passes to defaultValue, setValue,
\* disableTrigger and enableTrigger: "tab4" is the value of no trigger.
TabsValues == {"tab1", "tab2", "tab3", "tab4"}

\* The keys the user presses on a trigger; "Enter" stands for every key
\* the switch statement does not name.
Keys == {"ArrowRight", "ArrowDown", "ArrowLeft", "ArrowUp", "Home", "End", "Enter"}

\* The instance and its page after the constructor's field assignments:
\* this.triggers, this.contents, this.currentValue = null.
NewTabs(page, defaultValue) ==
  [constructed  |-> TRUE,
   options      |-> [defaultValue |-> defaultValue, enableKeyboard |-> TRUE,
                     enableHistory |-> FALSE],
   triggers     |-> [i \in DOMAIN page.triggers |->
                       [value |-> page.triggers[i], active |-> FALSE,
                        ariaSelected |-> NULL, tabindex |-> NULL,
                        disabled |-> FALSE]],
   contents     |-> [n \in DOMAIN page.contents |->
                       [value |-> page.contents[n], active |-> FALSE,
                        hidden |-> FALSE]],
   currentValue |-> NULL,
   called       |-> NULL,
   last         |-> [op |-> "construct", target |-> 0, arg |-> NULL]]

\* _setupAccessibility(): every trigger is an unselected tab outside the
\* tab order, every panel is hidden.
SetupAccessibility(t) ==
  [t EXCEPT
     !.triggers = [i \in DOMAIN @ |-> [@[i] EXCEPT !.ariaSelected = "false",
                                                   !.tabindex = "-1"]],
     !.contents = [n \in DOMAIN @ |-> [@[n] EXCEPT !.hidden = TRUE]]]

\* _isValidValue(value)
IsValidValue(t, v) == \E i \in DOMAIN t.triggers : t.triggers[i].value = v

\* Array.prototype.find over the triggers or the panels: the index of the
\* first element of that value, 0 when there is none.
Find(elems, v) ==
  IF \E i \in DOMAIN elems : elems[i].value = v
  THEN CHOOSE i \in DOMAIN elems :
         /\ elems[i].value = v
         /\ \A j \in 1..(i - 1) : elems[j].value # v
  ELSE 0

\* setValue(value, triggerCallback) without the loop that deactivates the
\* triggers and panels: the newly chosen ones are activated on top of the
\* old ones.
SetValueOnTop(t, v, triggerCallback) ==
  IF ~IsValidValue(t, v) THEN t
  ELSE IF t.currentValue = v THEN t
  ELSE LET a == Find(t.triggers, v)
           c == Find(t.contents, v)
       IN [t EXCEPT
             !.triggers = [i \in DOMAIN @ |->
                             IF i = a THEN [@[i] EXCEPT !.active = TRUE,
                                                        !.ariaSelected = "true",
                                                        !.tabindex = "0"]
                             ELSE @[i]],
             !.contents = [n \in DOMAIN @ |->
                             IF n = c THEN [@[n] EXCEPT !.active = TRUE,
                                                        !.hidden = FALSE]
                             ELSE @[n]],
             !.currentValue = v,
             !.called = IF triggerCallback THEN v ELSE @]

\* setValue(value, triggerCallback): an unknown value is refused with a
\* warning and the current value is left alone; otherwise every trigger and
\* panel is deactivated, the first trigger and the first panel of that value
\* are activated, currentValue is set and onValueChange is called.
SetValue(t, v, triggerCallback) ==
  IF ~IsValidValue(t, v) THEN t
  ELSE IF t.currentValue = v THEN t
  ELSE LET a == Find(t.triggers, v)
           c == Find(t.contents, v)
       IN [t EXCEPT
             !.triggers = [i \in DOMAIN @ |->
                             IF i = a THEN [@[i] EXCEPT !.active = TRUE,
                                                        !.ariaSelected = "true",
                                                        !.tabindex = "0"]
                             ELSE [@[i] EXCEPT !.active = FALSE,
                                               !.ariaSelected = "false",
                                               !.tabindex = "-1"]],
             !.contents = [n \in DOMAIN @ |->
                             IF n = c THEN [@[n] EXCEPT !.active = TRUE,
                                                        !.hidden = FALSE]
                             ELSE [@[n] EXCEPT !.active = FALSE,
                                               !.hidden = TRUE]],
             !.currentValue = v,
             !.called = IF triggerCallback THEN v ELSE @]

\* _getInitialValue(): the default value when it is the value of a trigger
\* (history is disabled, so the URL hash is not consulted).
GetInitialValue(t) ==
  IF t.options.defaultValue # NULL /\ IsValidValue(t, t.options.defaultValue)
  THEN t.options.defaultValue
  ELSE NULL

\* _init(): accessibility attributes, listeners, then the initial value (the
\* first trigger's when there is no usable default) is shown without the
\* callback.
TabsInit(t) ==
  LET s == SetupAccessibility(t)
      initialValue == IF GetInitialValue(s) # NULL THEN GetInitialValue(s)
                      ELSE s.triggers[1].value
  IN IF initialValue # NULL /\ initialValue # ""
     THEN SetValue(s, initialValue, FALSE)
     ELSE s

\* getValue()
GetValue(t) == t.currentValue

\* _handleTriggerClick(event) on trigger i
HandleTriggerClick(t, i) ==
  LET v == t.triggers[i].value
  IN IF v # NULL /\ v # "" THEN SetValue(t, v, TRUE) ELSE t

\* The index (from 1) _handleKeyDown computes for a key pressed on trigger
\* i; 0 for a key it does not handle.
NextIndex(t, i, key) ==
  LET length == Len(t.triggers)
      currentIndex == i - 1
  IN CASE key \in {"ArrowRight", "ArrowDown"} -> ((currentIndex + 1) % length) + 1
       [] key \in {"ArrowLeft", "ArrowUp"} -> ((currentIndex - 1 + length) % length) + 1
       [] key = "Home" -> 1
       [] key = "End" -> length
       [] OTHER -> 0

\* _handleKeyDown(event) with event.target trigger i
HandleKeyDown(t, i, key) ==
  LET nextIndex == NextIndex(t, i, key)
  IN IF nextIndex = 0 THEN t
     ELSE SetValue(t, t.triggers[nextIndex].value, TRUE)

\* disableTrigger(value)
DisableTrigger(t, v) ==
  LET i == Find(t.triggers, v)
  IN IF i = 0 THEN t ELSE [t EXCEPT !.triggers[i].disabled = TRUE]

\* enableTrigger(value)
EnableTrigger(t, v) ==
  LET i == Find(t.triggers, v)
  IN IF i = 0 THEN t ELSE [t EXCEPT !.triggers[i].disabled = FALSE]

\* The call under way starts with no callback made.
Fresh(t, op, target, arg) ==
  [t EXCEPT !.called = NULL,
            !.last = [op |-> op, target |-> target, arg |-> arg]]

\* new Tabs({tabsList, defaultValue})
ConstructTabs ==
  /\ ~tabs.constructed
  /\ \E page \in TabsPages, defaultValue \in {NULL, "tab2", "tab4"} :
       tabs' = TabsInit(NewTabs(page, defaultValue))
  /\ UNCHANGED << inside, other, store >>

\* tabs.setValue(v) by the host page
TabsSetValue ==
  /\ tabs.constructed
  /\ \E v \in TabsValues :
       tabs' = SetValue(Fresh(tabs, "setValue", 0, v), v, TRUE)
  /\ UNCHANGED << inside, other, store >>

\* The user clicks trigger i.  A disabled button, which in addition has
\* pointer-events: none, receives no click.
TabsClick ==
  /\ tabs.constructed
  /\ \E i \in DOMAIN tabs.triggers :
       /\ ~tabs.triggers[i].disabled
       /\ tabs' = HandleTriggerClick(Fresh(tabs, "click", i, tabs.triggers[i].value), i)
  /\ UNCHANGED << inside, other, store >>

\* The user presses a key while trigger i has the focus; a disabled button
\* cannot have it.
TabsKeyDown ==
  /\ tabs.constructed
  /\ tabs.options.enableKeyboard
  /\ \E i \in DOMAIN tabs.triggers, key \in Keys :
       /\ ~tabs.triggers[i].disabled
       /\ tabs' = HandleKeyDown(Fresh(tabs, "keydown", i, key), i, key)
  /\ UNCHANGED << inside, other, store >>

\* tabs.disableTrigger(v) by the host page
TabsDisableTrigger ==
  /\ tabs.constructed
  /\ \E v \in TabsValues :
       tabs' = DisableTrigger(Fresh(tabs, "disableTrigger", 0, v), v)
  /\ UNCHANGED << inside, other, store >>

\* tabs.enableTrigger(v) by the host page
TabsEnableTrigger ==
  /\ tabs.constructed
  /\ \E v \in TabsValues :
       tabs' = EnableTrigger(Fresh(tabs, "enableTrigger", 0, v), v)
  /\ UNCHANGED << inside, other, store >>

\* The page of the tabs: no binding engine is instantiated over it.
InitTabs == Loaded({<<>>}) /\ engine = "FormBinder" /\ layout[1].pristine = "o1"

NextTabs ==
  \/ ConstructTabs
  \/ TabsSetValue
  \/ TabsClick
  \/ TabsKeyDown
  \/ TabsDisableTrigger
  \/ TabsEnableTrigger

SpecTabs == InitTabs /\ [][NextTabs]_vars


\* ------------------------------------------------------- vocabulary of claims
\* The vocabulary of the specification, read off the document: a source
\* feeds every group it declares, and it is active when it is a checked
\* checkbox, a checked radio, a select or text input with a non-empty value,
\* or a static value element.
Declared(i) == Range(Tpl(i).target)

\* The nodes that carry class c.
NodesOfClass(c) == { n \in Nodes : c \in layout[n].classes }

\* The registered sources that declare group c.
FeedersOfClass(c) == { i \in Range(elements) : c \in Declared(i) }

IsActiveSource(i) ==
  CASE Tpl(i).kind \in {"checkbox", "radio"} -> checked[i]
    [] Tpl(i).kind \in {"select", "text"}    -> value[i] # ""
    [] OTHER                                 -> TRUE

\* The value an active source proposes.
ActiveValue(i) ==
  CASE Tpl(i).kind = "checkbox" ->
         IF Truthy(Tpl(i).trueValue) THEN Tpl(i).trueValue ELSE DefaultTrueValue
    [] Tpl(i).kind = "static"   -> Tpl(i).valueAttr
    [] OTHER                    -> value[i]

ActiveFeeders(c) == { i \in FeedersOfClass(c) : IsActiveSource(i) }

\* The sources' properties as the engine reads them in the current state.
Cur == Running(checked, value, content, originalContents)

\* The position of a registered source in this.elements.
Position(i) == CHOOSE k \in DOMAIN elements : elements[k] = i

\* The active sources of c that no active source of c outranks.
TopRanked(c) ==
  { i \in ActiveFeeders(c) : \A j \in ActiveFeeders(c) : Priority(i) <= Priority(j) }

\* The first-registered of the top-ranked active sources of c.
FirstTop(c) ==
  CHOOSE i \in TopRanked(c) : \A j \in TopRanked(c) : Position(i) <= Position(j)

\* The operation that ran last was init or an event handler of the engine.
Resolved == lastEvent.op \in {"init", "change", "input"}

\* The groups an _updateTargets call of the last operation resolved.
ResolvedClasses(w) ==
  IF engine = "FormBinder" THEN SelectorClasses(w.sel) ELSE {w.sel}

\* The groups the last operation resolved whose nodes belong to no other
\* group: what the operation wrote to them is what they show.
ResolvedApart ==
  { c \in UNION { ResolvedClasses(lastWrites[k]) : k \in DOMAIN lastWrites } :
      \A n \in NodesOfClass(c) : layout[n].classes = {c} }

\* Every node of group c shows v.
Shows(c, v) == \A n \in NodesOfClass(c) : content[n] = Assigned(v)

\* C1: after init or a handler, every group it resolved that has at least
\* one active source shows the value of an active source of the group whose
\* priority number is the smallest among the group's active sources.
C1_AsClaimed ==
  Resolved =>
    \A c \in ResolvedApart :
      ActiveFeeders(c) # {} => \E i \in TopRanked(c) : Shows(c, ActiveValue(i))

\* The nodes a group identifier matches.
NodesOf(g) == Range(QuerySelectorAll(g))

\* The group identifiers of the registered sources.
Registered == Range(UniqueTargets(elements, <<>>))

\* No node of g matches another registered group identifier.
Isolated(g) == \A h \in Registered \ {g} : NodesOf(h) \cap NodesOf(g) = {}

\* The markup the first node of g had when the document was loaded.
PristineOf(g) == layout[QuerySelectorAll(g)[1]].pristine

\* C2: when init or a handler has finished and all sources of a group it
\* resolved are inactive, every node of the group has the content that was
\* captured for the group at its first resolution.
C2_AsClaimed ==
  Resolved =>
    \A c \in ResolvedApart :
      ActiveFeeders(c) = {} =>
        \A n \in NodesOfClass(c) :
          \E k \in DOMAIN lastWrites :
            /\ c \in ResolvedClasses(lastWrites[k])
            /\ content[n] = originalContents[lastWrites[k].sel]

\* C3: when the only source of a group is an unchecked checkbox that
\* declares an inactive value, the resolution of the group writes that value
\* to every node of the group.
C3_AsClaimed ==
  Resolved =>
    \A c \in ResolvedApart : \A i \in FeedersOfClass(c) :
      ( /\ FeedersOfClass(c) = {i}
        /\ Tpl(i).kind = "checkbox" /\ ~checked[i]
        /\ Tpl(i).falseValue = "off" ) =>
        Shows(c, Tpl(i).falseValue)

\* C4: source A (active, priority 1) declares the groups a and b, source B
\* (active, priority 2) declares only a; after a change event on either of
\* them the nodes of a show A's value.
C4_AsClaimed ==
  \A A, B \in Range(elements) :
    ( /\ lastEvent.op \in {"change", "input"} /\ lastEvent.src \in {A, B}
      /\ Range(elements) = {A, B}
      /\ Declared(A) = {"a", "b"} /\ Declared(B) = {"a"}
      /\ IsActiveSource(A) /\ Priority(A) = 1
      /\ IsActiveSource(B) /\ Priority(B) = 2 ) =>
      \A n \in NodesOfClass("a") : content[n] = Assigned(ActiveValue(A))

\* C5: a change or input handler resolves and writes every group its source
\* declares before it returns: when it has returned, every node of every
\* declared group has been written by this handler and carries what one of
\* the handler's writes left in it; no declared group is left as it was.
C5_FanOutAtomic ==
  lastEvent.op \in {"change", "input"} =>
    \A c \in Declared(lastEvent.src) :
      /\ \E k \in DOMAIN lastWrites :
           /\ c \in ResolvedClasses(lastWrites[k])
           /\ NodesOfClass(c) \subseteq lastWrites[k].targets
      /\ \A n \in NodesOfClass(c) :
           \E k \in DOMAIN lastWrites :
             n \in lastWrites[k].targets /\ content[n] = lastWrites[k].content[n]

\* The handler of the only source, which declares two groups, has just run
\* and the nodes of both groups show the value of the source in place of
\* their own markup.
C5_Witness ==
  /\ lastEvent.op = "change"
  /\ Range(elements) = {lastEvent.src}
  /\ Declared(lastEvent.src) = {"a", "b"}
  /\ IsActiveSource(lastEvent.src)
  /\ \A n \in NodesOfClass("a") \cup NodesOfClass("b") :
       /\ content[n] = Assigned(ActiveValue(lastEvent.src))
       /\ content[n] # layout[n].pristine

\* C6: an unchecked radio is never an active candidate, and the value a
\* resolution writes to a group is never the value of an unchecked radio
\* (unless an active source of the group proposes the same value).
C6_AsClaimed ==
  Resolved =>
    \A c \in ResolvedApart : \A i \in FeedersOfClass(c) :
      (Tpl(i).kind = "radio" /\ ~checked[i]) =>
        /\ ~Candidate(Cur, i).isActive
        /\ Shows(c, value[i]) => \E j \in ActiveFeeders(c) : ActiveValue(j) = value[i]

\* C7: when several active sources of a group share the smallest priority
\* number, every resolution of the group writes the value of the one that
\* was registered first (the earliest in this.elements).
C7_AsClaimed ==
  Resolved =>
    \A c \in ResolvedApart :
      Cardinality(TopRanked(c)) >= 2 => Shows(c, ActiveValue(FirstTop(c)))

\* C8: a registered static-value source is an active candidate in every
\* state, and every resolution of a group it feeds leaves the group showing
\* its literal value unless an active source of the group has a strictly
\* smaller priority number.
C8_AsClaimed ==
  Resolved =>
    \A c \in ResolvedApart : \A s \in FeedersOfClass(c) :
      Tpl(s).kind = "static" =>
        /\ Candidate(Cur, s).isActive
        /\ (~ \E j \in ActiveFeeders(c) : Priority(j) < Priority(s)) =>
             Shows(c, Tpl(s).valueAttr)

Settled == lastEvent.op # "none"

\* C10 as claimed: after every handler, init pass or updateTargets call all
\* nodes matching a registered group identifier carry the same content,
\* also when registered identifiers match overlapping sets of nodes.
C10_AsClaimed ==
  Settled =>
    \A g \in Registered : \A n, m \in NodesOf(g) : content[n] = content[m]

\* The identifiers that were written at least once: each has a snapshot.
Written == DOMAIN originalContents

\* No node of g matches another identifier that is registered or was written.
Apart(g) == \A h \in (Registered \cup Written) \ {g} : NodesOf(h) \cap NodesOf(g) = {}

\* C10, amended: after every handler, init pass or updateTargets call all
\* nodes matching a registered group identifier carry the same content,
\* provided none of them matches another identifier that is registered or
\* was written through updateTargets.
C10_OneStatePerGroup ==
  Settled => \A g \in Registered : Apart(g) => \A n, m \in NodesOf(g) : content[n] = content[m]

\* A registered group of two nodes that were loaded with different markup
\* has been resolved and then overwritten through updateTargets.
C10_Witness ==
  /\ lastEvent.op = "updateTargets"
  /\ \E g \in Registered :
       /\ Apart(g)
       /\ lastWrites[1].sel = g
       /\ Cardinality(NodesOf(g)) > 1
       /\ \E n, m \in NodesOf(g) : layout[n].pristine # layout[m].pristine
       /\ \A n \in NodesOf(g) : content[n] = "X"

\* The snapshot map after the first k groups of the resolve-all pass that
\* init() runs over the elements els, starting from the emptied map.
SnapshotsAfter(els, k) ==
  ResolveEach(Running(checked, value, content, <<>>), els,
              SubSeq(UniqueTargets(els, <<>>), 1, k)).oc

\* C11: the snapshot map is write-once between two cleanup() calls: no change
\* or input event, updateTargets, setElementValue, addElement or
\* removeElement changes or removes an entry that is stored, and within the
\* resolve-all pass of init() (which starts by cleanup()) an entry stored
\* for one group is not changed while the later groups are resolved.
C11_SnapshotWriteOnce ==
  [][ /\ lastEvent'.op \notin {"init", "cleanup"} =>
           \A g \in DOMAIN originalContents :
             /\ g \in DOMAIN originalContents'
             /\ originalContents'[g] = originalContents[g]
      /\ (lastEvent'.op = "init" /\ lastEvent' # lastEvent) =>
           \A k \in 0..Len(UniqueTargets(elements', <<>>)) :
             \A g \in DOMAIN SnapshotsAfter(elements', k) :
               /\ g \in DOMAIN originalContents'
               /\ originalContents'[g] = SnapshotsAfter(elements', k)[g]
    ]_vars

\* removeElement has run while a group shows a value other than its stored
\* snapshot.
C11_Witness ==
  /\ lastEvent.op = "removeElement"
  /\ \E g \in DOMAIN originalContents : \E n \in NodesOf(g) :
       content[n] # originalContents[g]

\* C12: after any init(root), the first or a later one, the Binding Set is
\* the set init discovers, every source in it has exactly one change
\* listener, and the snapshot stored for each registered group is the
\* content the group had when the document was loaded, so that a fallback
\* restores it.
C12_AsClaimed ==
  lastEvent.op = "init" =>
    /\ elements = Discover
    /\ \A i \in Range(elements) : listeners[i]["change"] = 1
    /\ \A g \in Registered :
         (Isolated(g) /\ NodesOf(g) # {}) =>
           /\ g \in DOMAIN originalContents
           /\ originalContents[g] = PristineOf(g)

\* C13: when cleanup() has run, after whatever init, addElement and
\* removeElement calls came before, no change or input listener of this
\* instance is attached to any element, the Binding Set and the snapshot map
\* are empty, no exception left the call, and a second cleanup() changes
\* nothing.
C13_CleanupComplete ==
  lastEvent.op = "cleanup" =>
    /\ \A i \in Slots : listeners[i] = NoListeners
    /\ elements = <<>>
    /\ cleanupFns = <<>>
    /\ originalContents = <<>>
    /\ ~thrown
    /\ Cleanup(Machine) = Machine

\* cleanup() has detached the change listeners of checkboxes that were
\* removed and added again until each carried MaxListeners of them.
C13_Witness ==
  /\ lastEvent.op = "cleanup"
  /\ doc # <<>>
  /\ \A i \in Slots : Tpl(i).kind = "checkbox"
  /\ detached = MaxListeners * Len(doc)

\* C14: addElement(node) for a node that is already in the Binding Set is a
\* no-op: the Binding Set, the attached listeners, the cleanup functions,
\* the snapshot map and the nodes' content are as before and no group is
\* written.  (A step that ends with addElement as the last operation and
\* leaves the controls' checked and value alone is such a call.)
C14_AddElementNoOp ==
  [][ ( /\ lastEvent'.op = "addElement"
        /\ lastEvent'.src \in Range(elements)
        /\ checked' = checked /\ value' = value )
      => /\ UNCHANGED << elements, listeners, cleanupFns, originalContents, content >>
         /\ lastWrites' = <<>>
    ]_vars

\* addElement was called on a registered source that feeds a group whose
\* snapshot is stored, and wrote nothing.
C14_Witness ==
  /\ lastEvent.op = "addElement"
  /\ lastEvent.src \in Range(elements)
  /\ HandledTargets(lastEvent.src) # <<>>
  /\ originalContents # <<>>
  /\ lastWrites = <<>>

\* The identifier is one querySelectorAll accepts.
WellFormed(g) == ~Malformed(SelectorText(g))

\* The last operation made an _updateTargets call for group g.
WroteGroup(g) == \E k \in DOMAIN lastWrites : lastWrites[k].sel = g

\* C15: a malformed group identifier makes no entry point throw, in either
\* engine: no operation ends with an exception, no write is made for the
\* malformed group, and every well-formed group of the same pass (all
\* registered groups at init, the groups of the source in a handler or
\* setElementValue) is still resolved.
C15_AsClaimed ==
  /\ ~thrown
  /\ \A k \in DOMAIN lastWrites : WellFormed(lastWrites[k].sel)
  /\ lastEvent.op = "init" =>
       \A g \in Registered : WellFormed(g) => WroteGroup(g)
  /\ lastEvent.op \in {"change", "setElementValue"} =>
       \A g \in Range(HandledTargets(lastEvent.src)) : WellFormed(g) => WroteGroup(g)

\* C16: a step in which updateTargets(groupId, value) ran with a non-empty
\* value leaves every node that matches groupId showing that value, whatever
\* the sources' states are, and leaves the Binding Set and the attached
\* listeners as they were.
C16_ExplicitOverride ==
  [][ ( /\ lastEvent'.op = "updateTargets"
        /\ lastWrites' # <<>>
        /\ lastWrites'[1].value # "" )
      => /\ \A n \in NodesOf(lastWrites'[1].sel) :
              content'[n] = Assigned(lastWrites'[1].value)
         /\ UNCHANGED << elements, listeners, cleanupFns >>
    ]_vars

\* updateTargets has overwritten a group that shows another value through
\* its checked checkbox.
C16_Witness ==
  /\ lastEvent.op = "updateTargets"
  /\ lastWrites # <<>>
  /\ lastWrites[1].value = "X"
  /\ \E i \in Range(elements) :
       /\ Tpl(i).kind = "checkbox" /\ checked[i] /\ Tpl(i).trueValue = "A"
       /\ lastWrites[1].sel \in Range(HandledTargets(i))
  /\ NodesOf(lastWrites[1].sel) # {}
  /\ \A n \in NodesOf(lastWrites[1].sel) : content[n] = "X"

\* The snapshot maps of the instances that exist.
SnapshotMaps ==
  {originalContents} \cup (IF other.constructed THEN {other.oc} ELSE {})

\* C17: with two instances over one document, in any interleaving of the
\* constructions and the change events, what either instance holds to
\* restore a group on fallback is the content the group had when the
\* document was loaded, never a value the other instance wrote.
C17_AsClaimed ==
  \A oc \in SnapshotMaps :
    \A g \in DOMAIN oc :
      (NodesOf(g) # {} /\ \A h \in DOMAIN oc \ {g} : NodesOf(h) \cap NodesOf(g) = {})
        => oc[g] = PristineOf(g)

\* C18: a setState call in which a middleware returned false is cancelled:
\* it returns the previous state, the stored state and the history are as
\* before, no subscriber is notified, and the middleware that returned
\* false is the last one of the pipeline that ran.
C18_CancelledUpdate ==
  [][ ( /\ store.constructed
        /\ store'.last.op = "setState"
        /\ False \in Range(store'.last.results) )
      => LET results == store'.last.results IN
         /\ store'.last.returned = Object(store.state)
         /\ store'.state = store.state
         /\ store'.previousStates = store.previousStates
         /\ store'.last.notified = <<>>
         /\ Len(results) <= Len(store.middlewares)
         /\ \A k \in DOMAIN results : (results[k] = False) <=> (k = Len(results))
    ]_vars

\* With time travel enabled, a history entry stored and a subscriber
\* listening, a setState was cancelled by a middleware that is not the last
\* of the pipeline.
C18_Witness ==
  /\ store.constructed
  /\ store.last.op = "setState"
  /\ False \in Range(store.last.results)
  /\ Len(store.last.results) < Len(store.middlewares)
  /\ store.options.enableTimeTravel
  /\ store.previousStates # <<>>
  /\ store.listeners # <<>>

\* C19: with time travel enabled, undo() makes the state the one that was
\* current immediately before the most recent state-changing call (setState
\* or batchUpdate) that has not been undone, so that successive undo() calls
\* step back through the changes in reverse order.
C19_AsClaimed ==
  [][ ( /\ store.constructed
        /\ store.options.enableTimeTravel
        /\ store'.last.op = "undo"
        /\ store.trail # <<>> )
      => store'.state = store.trail[Len(store.trail)]
    ]_vars

\* Group g resolved and written from the current state, and then once more.
ResolvedOnce(g) == UpdateTargetsWithPriority(Cur, elements, g)
ResolvedTwice(g) == UpdateTargetsWithPriority(ResolvedOnce(g), elements, g)

\* C20: in every state of an initialised engine, resolving and writing a
\* registered group twice in a row leaves every node of the group with the
\* content the first pass gave it, and the second pass leaves the snapshot
\* map as the first left it.
C20_ResolveIdempotent ==
  Initialized =>
    \A g \in Registered :
      /\ \A n \in NodesOf(g) : ResolvedTwice(g).content[n] = ResolvedOnce(g).content[n]
      /\ ResolvedTwice(g).oc = ResolvedOnce(g).oc

\* A registered group of two nodes shows a value put there through
\* updateTargets, so that the first pass rewrites both nodes.
C20_Witness ==
  /\ lastEvent.op = "updateTargets"
  /\ \E g \in Registered :
       /\ Cardinality(NodesOf(g)) > 1
       /\ \A n \in NodesOf(g) : content[n] = "X"
       /\ \A n \in NodesOf(g) : ResolvedOnce(g).content[n] # "X"
       /\ \A n \in NodesOf(g) : ResolvedTwice(g).content[n] = ResolvedOnce(g).content[n]

\* The unchecked checkbox i is the only source of group c.
SoleUnchecked(c, i) ==
  /\ FeedersOfClass(c) = {i}
  /\ Tpl(i).kind = "checkbox"
  /\ ~checked[i]

\* Every node of group c shows the snapshot of the identifier it was
\* written through.
ShowsOriginal(c) ==
  \A n \in NodesOfClass(c) :
    \E k \in DOMAIN lastWrites :
      /\ c \in ResolvedClasses(lastWrites[k])
      /\ content[n] = originalContents[lastWrites[k].sel]

\* C21: for an unchecked checkbox that is the only source of a group, a
\* declared empty inactive value is written as an override, so that the
\* nodes of the group become empty, while an absent inactive value leaves
\* the nodes with the group's original content.
C21_AsClaimed ==
  Resolved =>
    \A c \in ResolvedApart : \A i \in FeedersOfClass(c) :
      SoleUnchecked(c, i) =>
        /\ Tpl(i).falseValue = "" => Shows(c, "")
        /\ Tpl(i).falseValue = NULL => ShowsOriginal(c)

\* C22: the snapshot stored for a group identifier is the content its first
\* matching node had when the document was loaded, before the engine wrote
\* to that node at all, also when the node matches another registered
\* identifier through which the engine wrote first.
C22_AsClaimed ==
  \A g \in DOMAIN originalContents :
    NodesOf(g) # {} => originalContents[g] = PristineOf(g)

\* C23: a source that removeElement took out of the Binding Set is not a
\* candidate: every value a handler or setElementValue writes is the empty
\* selection (the group falls back to its snapshot) or the value of an
\* active source that is registered, also when the event that triggered the
\* resolution came from the removed source, whose listener is still attached.
C23_RemovedNotCandidate ==
  lastEvent.op \in {"change", "input", "setElementValue"} =>
    \A k \in DOMAIN lastWrites :
      \/ lastWrites[k].value = ""
      \/ \E j \in Range(elements) :
           /\ IsActiveSource(j)
           /\ ResolvedClasses(lastWrites[k]) \subseteq Declared(j)
           /\ lastWrites[k].value = ActiveValue(j)

\* A change event on a removed, checked checkbox resolved its group, and the
\* value written is that of a registered checkbox of lower priority.
C23_Witness ==
  /\ lastEvent.op = "change"
  /\ lastEvent.src \notin Range(elements)
  /\ checked[lastEvent.src]
  /\ lastWrites # <<>>
  /\ \E j \in Range(elements) :
       /\ checked[j]
       /\ Priority(lastEvent.src) < Priority(j)
       /\ lastWrites[1].value = ActiveValue(j)
       /\ ActiveValue(j) # ActiveValue(lastEvent.src)

\* The classes of the document's output nodes.
Classes == UNION { layout[n].classes : n \in Nodes }

\* The markup the first node of class c had when the document was loaded.
OriginalOfClass(c) ==
  layout[CHOOSE n \in NodesOfClass(c) : \A m \in NodesOfClass(c) : n <= m].pristine

\* C24: after init and after every change or input event, each group that
\* has a registered source and whose nodes belong to no other group shows
\* what resolving the current states of its sources yields: the value of a
\* top-ranked active source, or the group's original content when no source
\* is active.  In particular the group of a radio that became unchecked
\* because another radio of its name was selected does not keep its value.
C24_AsClaimed ==
  Resolved =>
    \A c \in Classes :
      ( /\ FeedersOfClass(c) # {}
        /\ \A n \in NodesOfClass(c) : layout[n].classes = {c} )
      => IF ActiveFeeders(c) # {}
         THEN \E i \in TopRanked(c) : Shows(c, ActiveValue(i))
         ELSE \A n \in NodesOfClass(c) : content[n] = OriginalOfClass(c)

\* C25: after any sequence of init, addElement and removeElement calls each
\* element carries at most one change listener of the engine instance, and
\* a change event resolves each group of its source exactly once.
C25_AsClaimed ==
  /\ \A i \in Slots : listeners[i]["change"] <= 1
  /\ lastEvent.op = "change" =>
       \A k, l \in DOMAIN lastWrites :
         lastWrites[k].sel = lastWrites[l].sel => k = l

\* C26: a listener subscribed with a selector is invoked by a setState,
\* batchUpdate or undo call exactly when the selector's value in the state
\* after the call differs from its value in the state before the call.
C26_AsClaimed ==
  [][ ( /\ store.constructed
        /\ store'.last.op \in {"setState", "batchUpdate", "undo"}
        /\ "selector" \in Range(store.listeners) )
      => ( (\E k \in DOMAIN store'.last.notified :
              store'.last.notified[k].listener = "selector")
           <=> store'.state["ui"] # store.state["ui"] )
    ]_vars

\* C27: with validation enabled and an initial state that has the five
\* required keys, every state reached through setState, batchUpdate and
\* undo has all five keys.
C27_AsClaimed ==
  (store.constructed /\ store.options.enableValidation) =>
    RequiredKeys \subseteq DOMAIN store.state

\* C28: with time travel enabled the history never holds more than
\* maxHistorySize entries, and a setState that finds it full drops the
\* oldest entry and appends the state it started from; with time travel
\* disabled the history stays empty.
C28_HistoryBound ==
  /\ [](store.constructed =>
          IF store.options.enableTimeTravel
          THEN Len(store.previousStates) <= store.options.maxHistorySize
          ELSE store.previousStates = <<>>)
  /\ [][ ( /\ store.constructed
           /\ store.options.enableTimeTravel
           /\ store'.last.op = "setState"
           /\ False \notin Range(store'.last.results)
           /\ Len(store.previousStates) = store.options.maxHistorySize )
         => /\ Len(store'.previousStates) = store.options.maxHistorySize
            /\ \A k \in 1..(Len(store.previousStates) - 1) :
                 store'.previousStates[k] = store.previousStates[k + 1]
            /\ store'.previousStates[Len(store'.previousStates)].state = store.state
       ]_vars

\* A setState has pushed the oldest of maxHistorySize + 1 changes out of
\* the full history.
C28_Witness ==
  /\ store.constructed
  /\ store.options.enableTimeTravel
  /\ store.last.op = "setState"
  /\ Len(store.previousStates) = store.options.maxHistorySize
  /\ Len(store.trail) = store.options.maxHistorySize + 1
  /\ \A k \in DOMAIN store.previousStates :
       store.previousStates[k].state = store.trail[k + 1]
  /\ store.trail[1] # store.trail[2]

\* ------------------------------------------------------------------- tabs
\* The triggers that carry the active class with aria-selected="true".
ActiveTriggers(t) ==
  { i \in DOMAIN t.triggers :
      t.triggers[i].active /\ t.triggers[i].ariaSelected = "true" }

\* Exactly one trigger is active, it is the one of getValue(), and every
\* panel of another value is hidden.
SingleActive(t) ==
  /\ \E i \in DOMAIN t.triggers :
       /\ ActiveTriggers(t) = {i}
       /\ t.triggers[i].value = GetValue(t)
  /\ \A n \in DOMAIN t.contents :
       t.contents[n].value # GetValue(t) => t.contents[n].hidden

\* C29: after construction and after every setValue, trigger click and
\* arrow/Home/End key press exactly one trigger carries the active class
\* with aria-selected="true", it is the trigger whose data-tabs-value is
\* getValue(), and every panel of another value is hidden; a setValue with
\* a value no trigger has leaves the triggers, the panels and getValue()
\* as they were.
C29_SingleActive ==
  /\ [](tabs.constructed => SingleActive(tabs))
  /\ [][ (/\ tabs.constructed
          /\ tabs'.last.op = "setValue"
          /\ ~IsValidValue(tabs, tabs'.last.arg))
         => /\ tabs'.triggers = tabs.triggers
            /\ tabs'.contents = tabs.contents
            /\ GetValue(tabs') = GetValue(tabs)
            /\ tabs'.called = NULL
       ]_vars

\* The third tab, which is never the initial one, has been activated and
\* a setValue with the value of no trigger has been refused after that.
C29_Witness ==
  /\ tabs.constructed
  /\ tabs.last.op = "setValue"
  /\ ~IsValidValue(tabs, tabs.last.arg)
  /\ Len(tabs.triggers) = 3
  /\ GetValue(tabs) = "tab3"
  /\ ActiveTriggers(tabs) = {3}
  /\ \A n \in DOMAIN tabs.contents : tabs.contents[n].hidden

\* C30: while trigger v is disabled, no click and no key press on another
\* trigger makes v the active value.
C30_AsClaimed ==
  [][ (/\ tabs.constructed
       /\ tabs'.last.op \in {"click", "keydown"})
      => \A i \in DOMAIN tabs.triggers :
           (/\ tabs.triggers[i].disabled
            /\ tabs'.last.target # i
            /\ GetValue(tabs) # tabs.triggers[i].value)
           => GetValue(tabs') # tabs.triggers[i].value
    ]_vars

====
